---- MODULE Spec2Model ----
(***************************************************************************)
(* TanhFunction of GPy/util/warping_functions.py as a state machine.       *)
(*                                                                         *)
(* Real numbers are fixed-point integers with SCALE units per 1.0; every   *)
(* product and quotient is truncated toward zero to that resolution.       *)
(* Arrays of shape [N, 1] are sequences of length N. psi is a sequence of  *)
(* n_terms triples <<a, b, c>>.                                            *)
(***************************************************************************)
EXTENDS Integers, Sequences, FiniteSets, TLC

\* ------------------------------------------------------------------ bounds
MaxTerms == 2
MaxN == 2
MaxIter == 5

\* ------------------------------------------------------- number representation
SCALE == 1000
ONE == SCALE
\* np.inf (line 105): larger than every value the model computes
Inf == 1000000
\* the tolerance 1e-10 of line 107 lies below the resolution 1/SCALE, so on
\* representable values `x > 1e-10` is `x > 0`
Tol == 0
\* default of the max_iterations argument
DefaultMaxIterations == 100
\* Python's None
None == <<>>

Abs(x) == IF x >= 0 THEN x ELSE -x

Trunc(p, q) == IF p >= 0 THEN p \div q ELSE -((-p) \div q)

FMul(x, y) == Trunc(x * y, SCALE)

\* numpy division: a zero divisor yields +-inf (nan, taken as inf, for 0/0)
FDiv(x, y) ==
  IF y = 0 THEN (IF x >= 0 THEN Inf ELSE -Inf)
  ELSE IF y > 0 THEN Trunc(x * SCALE, y)
  ELSE -Trunc(x * SCALE, -y)

\* np.tanh and np.cosh: tabulated at multiples of STEP/SCALE up to 5.0 and
\* interpolated linearly in between
STEP == 125
TanhTable ==
  <<0, 124, 245, 358, 462, 555, 635, 704, 762, 809, 848, 880, 905, 925, 941,
    954, 964, 972, 978, 983, 987, 990, 992, 994, 995, 996, 997, 998, 998, 999,
    999, 999, 999, 999, 1000, 1000, 1000, 1000, 1000, 1000, 1000>>
CoshTable ==
  <<1000, 1008, 1031, 1071, 1128, 1202, 1295, 1408, 1543, 1702, 1888, 2104,
    2352, 2638, 2964, 3337, 3762, 4246, 4797, 5422, 6132, 6939, 7853, 8891,
    10068, 11402, 12915, 14629, 16573, 18776, 21272, 24102, 27308, 30942,
    35060, 39726, 45014, 51006, 57796, 65491, 74210>>

Interp(tab, x) ==
  LET k == x \div STEP
      r == x % STEP
  IN IF k + 1 >= Len(tab) THEN tab[Len(tab)]
     ELSE tab[k + 1] + ((tab[k + 2] - tab[k + 1]) * r) \div STEP

Tanh(x) == IF x >= 0 THEN Interp(TanhTable, x) ELSE -Interp(TanhTable, -x)

Cosh(x) == Interp(CoshTable, Abs(x))

\* (1.0 / np.cosh(s)) ** 2
Sech2(s) == LET q == FDiv(ONE, Cosh(s)) IN FMul(q, q)

RECURSIVE SumTo(_, _)
SumTo(g, n) == IF n = 0 THEN 0 ELSE g[n] + SumTo(g, n - 1)

\* sum of a sequence
Sum(s) == SumTo(s, Len(s))

\* np.abs(update).sum()
AbsSum(u) == Sum([n \in 1..Len(u) |-> Abs(u[n])])

\* ------------------------------------------------------------ input domains
\* arrays of 1..MaxN entries drawn from S
Vectors(S) == UNION {[1..n -> S] : n \in 1..MaxN}

\* per-term triples <<a, b, c>> and values of d the optimizer may set; a, b
\* and d are constrained positive (constrain_positive, Logexp)
TermValues == {<<ONE, ONE, 0>>, <<2 * ONE, ONE \div 2, ONE>>}
DValues == {ONE, ONE \div 2}
\* entries of z handed to f_inv, of y handed to f, fgrad_y, fgrad_y_psi
ZValues == {-ONE, 0, 2 * ONE}
YValues == {-ONE, 0, (3 * ONE) \div 2}
\* (Y_untransformed, Kiy) entries handed to update_grads
ObsValues == {<<-ONE, ONE>>, <<ONE \div 2, -2 * ONE>>}
\* the initial_y hint given at construction
HintValues == {None, <<2 * ONE>>, <<2 * ONE, -(ONE \div 2)>>}
\* caller-supplied starting points of f_inv
StartValues == {0}
\* the max_iterations arguments
IterValues == {0, 1, MaxIter}

\* ------------------------------------------------------------------- state
VARIABLES
  n_terms, psi, d, initial_y,       \* the TanhFunction object
  psi_gradient, d_gradient,         \* psi.gradient, d.gradient
  op,                               \* the call made last (or in progress)
  Y, Kiy,                           \* its array arguments
  ret,                              \* its return value
  grad_y, grad_y_psi, grad_psi,     \* locals of update_grads
  had_gradient,                     \* the buffers were non-zero when
                                    \* update_grads was last entered
  pc, z, y, y_given, it, update, max_iterations, warned  \* frame of f_inv

params == <<n_terms, psi, d, initial_y>>
grads == <<psi_gradient, d_gradient>>
vars == <<n_terms, psi, d, initial_y, psi_gradient, d_gradient, op, Y, Kiy,
          ret, grad_y, grad_y_psi, grad_psi, had_gradient, pc, z, y, y_given, it,
          update, max_iterations, warned>>

\* ----------------------------------------------------------- pure functions
\* the per-term shift c initialised to 0 instead of 1
OnesPsiC0(T) == [i \in 1..T |-> <<ONE, ONE, 0>>]

\* np.ones((n_terms, 3))
OnesPsi(T) == [i \in 1..T |-> <<ONE, ONE, ONE>>]

\* one entry of f: d * y + sum_i a_i * tanh(b_i * (y + c_i))
f1(mpsi, dd, yn) ==
  FMul(dd, yn)
  + Sum([i \in 1..Len(mpsi) |->
          FMul(mpsi[i][1], Tanh(FMul(mpsi[i][2], yn + mpsi[i][3])))])

f(mpsi, dd, yy) == [n \in 1..Len(yy) |-> f1(mpsi, dd, yy[n])]

\* one entry of the tensors S, R, D of fgrad_y, for the term t = <<a, b, c>>
S1(t, yn) == FMul(t[2], yn + t[3])
R1(t, yn) == Tanh(S1(t, yn))
\* the sign of D flipped
DOfRFlipped(r) == FMul(r, r) - ONE
DOfR(r) == ONE - FMul(r, r)
D1(t, yn) == DOfR(R1(t, yn))

\* the precomputed tensors of fgrad_y, indexed [i][n]
PrecalcS(mpsi, yy) ==
  [i \in 1..Len(mpsi) |-> [n \in 1..Len(yy) |-> S1(mpsi[i], yy[n])]]
PrecalcR(mpsi, yy) ==
  [i \in 1..Len(mpsi) |-> [n \in 1..Len(yy) |-> R1(mpsi[i], yy[n])]]
PrecalcD(mpsi, yy) ==
  [i \in 1..Len(mpsi) |-> [n \in 1..Len(yy) |-> D1(mpsi[i], yy[n])]]

\* one entry of GRAD = (d + (a * b * D).sum(axis=0)).T
fgrad_y1(mpsi, dd, yn) ==
  dd + Sum([i \in 1..Len(mpsi) |->
             FMul(FMul(mpsi[i][1], mpsi[i][2]), D1(mpsi[i], yn))])

fgrad_y(mpsi, dd, yy) == [n \in 1..Len(yy) |-> fgrad_y1(mpsi, dd, yy[n])]

\* the column of d set on every term
DColumnAll(i, v) == v

\* the column of the shared parameter d: set on term index 0 only
DColumn(i, v) == IF i = 1 THEN v ELSE 0

\* gradients[n][i] = <<d/da, d/db, d/dc, d/dd>> of fgrad_y
GradientsEntry(t, i, yn) ==
  LET a == t[1]
      b == t[2]
      s == S1(t, yn)
      r == R1(t, yn)
      D == D1(t, yn)
      sech2 == Sech2(s)
  IN <<FMul(b, sech2),
       FMul(a, D - FMul(FMul(FMul(2 * ONE, s), r), sech2)),
       FMul(FMul(FMul(FMul(-2 * ONE, a), FMul(b, b)), r), sech2),
       DColumn(i, ONE)>>

Gradients(mpsi, yy) ==
  [n \in 1..Len(yy) |-> [i \in 1..Len(mpsi) |-> GradientsEntry(mpsi[i], i, yy[n])]]

\* covar_grad_chain[n][i] = <<dz/da, dz/db, dz/dc, dz/dd>>
CovarGradChainEntry(t, i, yn) ==
  LET a == t[1]
      b == t[2]
      c == t[3]
      s == S1(t, yn)
      r == R1(t, yn)
      sech2 == Sech2(s)
  IN <<r,
       FMul(FMul(a, yn + c), sech2),
       FMul(FMul(a, b), sech2),
       DColumn(i, yn)>>

CovarGradChain(mpsi, yy) ==
  [n \in 1..Len(yy) |->
     [i \in 1..Len(mpsi) |-> CovarGradChainEntry(mpsi[i], i, yy[n])]]

fgrad_y_psi(mpsi, dd, yy, return_covar_chain) ==
  IF return_covar_chain
  THEN <<Gradients(mpsi, yy), CovarGradChain(mpsi, yy)>>
  ELSE Gradients(mpsi, yy)

\* row i of ((1.0 / grad_y[:, :, None, None]) * grad_y_psi).sum(axis=0).sum(axis=0)
Djac_dpsi(gy, gyp, i) ==
  [k \in 1..4 |-> Sum([n \in 1..Len(gy) |-> FMul(FDiv(ONE, gy[n]), gyp[n][i][k])])]

\* row i of (Kiy[:, None, None, None] * grad_psi).sum(axis=0).sum(axis=0)
Dquad_dpsi(kiy, gp, i) ==
  [k \in 1..4 |-> Sum([n \in 1..Len(kiy) |-> FMul(kiy[n], gp[n][i][k])])]

\* row i of warping_grads = -dquad_dpsi + djac_dpsi
WarpingGrads(djac_i, dquad_i) == [k \in 1..4 |-> -dquad_i[k] + djac_i[k]]

\* the gradient buffer of psi as the framework creates it
ZeroGradient(T) == [i \in 1..T |-> <<0, 0, 0>>]

\* self.psi.gradient[:] = value
AssignPsi(old, value) == value

\* the buffer of d summed into instead of overwritten
AccumulateD(old, value) == old + value

\* self.d.gradient[:] = value
AssignD(old, value) == value

\* z = 0 taken as positive
SignStartGe(zn) == (IF zn >= 0 THEN ONE ELSE 0) - (IF zn < 0 THEN ONE ELSE 0)

\* y = ((z > 0) * 1.) - (z <= 0)
SignStart(zn) == (IF zn > 0 THEN ONE ELSE 0) - (IF zn <= 0 THEN ONE ELSE 0)

\* y *= self.initial_y (a hint of length 1 broadcasts)
Hint(h, n) == IF Len(h) = 1 THEN h[1] ELSE h[n]

\* the iteration started at y = 0
InitialGuessZero(zz, hint) == [n \in 1..Len(zz) |-> 0]

InitialGuess(zz, hint) ==
  [n \in 1..Len(zz) |->
     IF hint = None THEN SignStart(zz[n]) ELSE FMul(SignStart(zz[n]), Hint(hint, n))]

\* the cap tested with <= instead of <
ContinueOneMore(i, u, maxit) == i = 0 \/ (AbsSum(u) > Tol /\ i <= maxit)

\* the loop condition of f_inv
Continue(i, u, maxit) == i = 0 \/ (AbsSum(u) > Tol /\ i < maxit)

\* the warning given only past the cap
WarnPastCap(i, maxit) == i > maxit

\* the condition of the warning
Warn(i, maxit) == i = maxit

\* ------------------------------------------------------------------ actions
\* no call of f_inv is in progress
NoFrame ==
  /\ pc' = "idle" /\ z' = <<>> /\ y' = <<>> /\ y_given' = FALSE /\ it' = 0
  /\ update' = <<>> /\ max_iterations' = 0 /\ warned' = FALSE

NoLocals ==
  grad_y' = <<>> /\ grad_y_psi' = <<>> /\ grad_psi' = <<>> /\ UNCHANGED had_gradient

\* TanhFunction.__init__(n_terms, initial_y)
Init ==
  /\ n_terms \in 1..MaxTerms
  /\ psi = OnesPsi(n_terms)
  /\ d = ONE
  /\ initial_y \in HintValues
  /\ psi_gradient = ZeroGradient(n_terms)
  /\ d_gradient = 0
  /\ op = "__init__" /\ Y = <<>> /\ Kiy = <<>> /\ ret = None
  /\ grad_y = <<>> /\ grad_y_psi = <<>> /\ grad_psi = <<>>
  /\ had_gradient = FALSE
  /\ pc = "idle" /\ z = <<>> /\ y = <<>> /\ y_given = FALSE /\ it = 0
  /\ update = <<>> /\ max_iterations = 0 /\ warned = FALSE

\* the external optimizer writes the values of psi and d
Optimize(Terms, Ds) ==
  /\ pc # "loop"
  /\ psi' \in [1..n_terms -> Terms]
  /\ d' \in Ds
  /\ op' = "optimize" /\ Y' = <<>> /\ Kiy' = <<>> /\ ret' = None
  /\ NoLocals
  /\ NoFrame
  /\ UNCHANGED <<n_terms, initial_y, psi_gradient, d_gradient>>

\* f accumulating in place into the parameter d (z = d; z *= y; z += ...)
FInPlace(Ys) ==
  /\ pc # "loop"
  /\ \E yy \in Ys :
       /\ Y' = yy /\ Kiy' = <<>>
       /\ ret' = f(psi, d, yy)
       /\ d' = f1(psi, d, yy[1])
  /\ op' = "f"
  /\ NoLocals
  /\ NoFrame
  /\ UNCHANGED <<n_terms, psi, initial_y, grads>>

\* z = f(y)
F(Ys) ==
  /\ pc # "loop"
  /\ \E yy \in Ys :
       /\ Y' = yy /\ Kiy' = <<>>
       /\ ret' = f(psi, d, yy)
  /\ op' = "f"
  /\ NoLocals
  /\ NoFrame
  /\ UNCHANGED <<params, grads>>

\* fgrad_y(y, return_precalc)
Fgrad_y(Ys) ==
  /\ pc # "loop"
  /\ \E yy \in Ys, return_precalc \in BOOLEAN :
       /\ Y' = yy /\ Kiy' = <<>>
       /\ ret' = IF return_precalc
                 THEN <<fgrad_y(psi, d, yy), PrecalcS(psi, yy), PrecalcR(psi, yy),
                        PrecalcD(psi, yy)>>
                 ELSE fgrad_y(psi, d, yy)
       /\ op' = IF return_precalc THEN "fgrad_y_precalc" ELSE "fgrad_y"
  /\ NoLocals
  /\ NoFrame
  /\ UNCHANGED <<params, grads>>

\* fgrad_y_psi(y, return_covar_chain)
Fgrad_y_psi(Ys) ==
  /\ pc # "loop"
  /\ \E yy \in Ys, return_covar_chain \in BOOLEAN :
       /\ Y' = yy /\ Kiy' = <<>>
       /\ ret' = fgrad_y_psi(psi, d, yy, return_covar_chain)
       /\ op' = IF return_covar_chain THEN "fgrad_y_psi_chain" ELSE "fgrad_y_psi"
  /\ NoLocals
  /\ NoFrame
  /\ UNCHANGED <<params, grads>>

\* update_grads(Y_untransformed, Kiy)
Update_grads(Obs) ==
  /\ pc # "loop"
  /\ \E obs \in Obs :
       /\ Y' = [n \in 1..Len(obs) |-> obs[n][1]]
       /\ Kiy' = [n \in 1..Len(obs) |-> obs[n][2]]
  /\ grad_y' = fgrad_y(psi, d, Y')
  /\ grad_y_psi' = fgrad_y_psi(psi, d, Y', TRUE)[1]
  /\ grad_psi' = fgrad_y_psi(psi, d, Y', TRUE)[2]
  /\ had_gradient' = (d_gradient # 0 /\ psi_gradient # ZeroGradient(n_terms))
  /\ LET warping_grads(i) ==
           WarpingGrads(Djac_dpsi(grad_y', grad_y_psi', i), Dquad_dpsi(Kiy', grad_psi', i))
     IN /\ psi_gradient' =
             AssignPsi(psi_gradient,
                       [i \in 1..n_terms |-> SubSeq(warping_grads(i), 1, 3)])
        /\ d_gradient' = AssignD(d_gradient, warping_grads(1)[4])
  /\ op' = "update_grads" /\ ret' = None
  /\ NoFrame
  /\ UNCHANGED params

\* f_inv(z, max_iterations, y): entry, up to the loop head
F_inv_Call(Zs, Its, Starts) ==
  /\ pc # "loop"
  /\ \E zz \in Zs, maxit \in Its, y0 \in {None} \cup Starts :
       /\ y0 # None => Len(y0) = Len(zz)
       /\ (y0 = None /\ initial_y # None) => Len(initial_y) \in {1, Len(zz)}
       /\ z' = zz
       /\ max_iterations' = maxit
       /\ y_given' = (y0 # None)
       /\ y' = IF y0 = None THEN InitialGuess(zz, initial_y) ELSE y0
       /\ Y' = zz
  /\ it' = 0
  /\ update' = <<Inf>>
  /\ warned' = FALSE
  /\ pc' = "loop"
  /\ op' = "f_inv" /\ Kiy' = <<>> /\ ret' = None
  /\ NoLocals
  /\ UNCHANGED <<params, grads>>

\* one pass through the body of the while loop
F_inv_Iter ==
  /\ pc = "loop"
  /\ Continue(it, update, max_iterations)
  /\ LET fy == f(psi, d, y)
         fgrady == fgrad_y(psi, d, y)
         u == [n \in 1..Len(y) |-> FDiv(fy[n] - z[n], fgrady[n])]
     IN /\ update' = u
        /\ y' = [n \in 1..Len(y) |-> y[n] - u[n]]
  /\ it' = it + 1
  /\ UNCHANGED <<params, grads, op, Y, Kiy, ret, grad_y, grad_y_psi, grad_psi,
                 had_gradient, pc, z, y_given, max_iterations, warned>>

\* loop exit, the warning and the return
F_inv_Return ==
  /\ pc = "loop"
  /\ ~Continue(it, update, max_iterations)
  /\ warned' = Warn(it, max_iterations)
  /\ ret' = y
  /\ pc' = "done"
  /\ UNCHANGED <<params, grads, op, Y, Kiy, grad_y, grad_y_psi, grad_psi,
                 had_gradient, z, y, y_given, it, update, max_iterations>>

\* ----------------------------------------------------------- specifications
\* every operation, on one-entry input sets
Next ==
  \/ Optimize({<<ONE, ONE, 0>>}, {ONE \div 2})
  \/ F(Vectors({ONE}))
  \/ Fgrad_y(Vectors({ONE}))
  \/ Fgrad_y_psi(Vectors({ONE}))
  \/ Update_grads(Vectors({<<-ONE, ONE>>}))
  \/ F_inv_Call(Vectors({-ONE, 2 * ONE}), IterValues, {})
  \/ F_inv_Iter
  \/ F_inv_Return

Spec == Init /\ [][Next]_vars

\* the inversion engine
NextInv ==
  \/ Optimize(TermValues, DValues)
  \/ F_inv_Call(Vectors(ZValues), IterValues \cup {DefaultMaxIterations},
                Vectors(StartValues))
  \/ F_inv_Iter
  \/ F_inv_Return

SpecInv == Init /\ [][NextInv]_vars

\* the inversion engine on fewer inputs; the loop of f_inv runs to its end
\* once entered (the call is synchronous)
NextInvFair ==
  \/ Optimize({<<ONE, ONE, 0>>}, {ONE})
  \/ F_inv_Call(Vectors({-ONE, 0}), IterValues, {})
  \/ F_inv_Iter
  \/ F_inv_Return

SpecInvFair ==
  Init /\ [][NextInvFair]_vars /\ WF_vars(F_inv_Iter) /\ WF_vars(F_inv_Return)

\* the gradient aggregator
NextGrad ==
  \/ Optimize(TermValues, {ONE \div 2})
  \/ Update_grads(Vectors(ObsValues))

SpecGrad == Init /\ [][NextGrad]_vars

\* the forward transform and the jacobian engine
NextPure ==
  \/ Optimize(TermValues, DValues)
  \/ F(Vectors(YValues))
  \/ Fgrad_y(Vectors(YValues))

SpecPure == Init /\ [][NextPure]_vars

\* ------------------------------------------------------------------ claims
Converged == AbsSum(update) <= Tol

C3_NoFalseAlarm == (pc = "done" /\ Converged) => ~warned

\* C4: after update_grads the gradient buffers of psi and d are a function of
\* the (Y, Kiy, parameters) of that call alone, whatever they held before
C4_Overwrites ==
  op = "update_grads" =>
    LET gy == fgrad_y(psi, d, Y)
        gyp == Gradients(psi, Y)
        gp == CovarGradChain(psi, Y)
        w == [i \in 1..n_terms |->
                WarpingGrads(Djac_dpsi(gy, gyp, i), Dquad_dpsi(Kiy, gp, i))]
    IN /\ psi_gradient = [i \in 1..n_terms |-> <<w[i][1], w[i][2], w[i][3]>>]
       /\ d_gradient = w[1][4]

C4_Witness ==
  op = "update_grads" /\ had_gradient /\ d_gradient # 0 /\ Len(Y) = 2

\* C5: every call of f, fgrad_y, fgrad_y_psi, f_inv and update_grads leaves
\* the parameter values and the number of terms unchanged, and only
\* update_grads changes the gradient buffers
C5_Frame ==
  [][/\ op' \in {"f", "fgrad_y", "fgrad_y_precalc", "fgrad_y_psi",
                 "fgrad_y_psi_chain", "f_inv", "update_grads"}
          => (psi' = psi /\ d' = d /\ n_terms' = n_terms)
     /\ op' \in {"f", "fgrad_y", "fgrad_y_precalc", "fgrad_y_psi",
                 "fgrad_y_psi_chain", "f_inv"}
          => (psi_gradient' = psi_gradient /\ d_gradient' = d_gradient)]_vars

C5_Witness ==
  /\ op = "f_inv" /\ pc = "done" /\ it > 1
  /\ psi # OnesPsi(n_terms) /\ d_gradient # 0

\* C6 as stated: a new TanhFunction has a_i = 1, b_i = 1, c_i = 0 and d = 1
C6_Original ==
  op = "__init__" =>
    (d = ONE /\ \A i \in 1..n_terms : psi[i] = <<ONE, ONE, 0>>)

\* C6: a new TanhFunction with T terms has a_i = 1, b_i = 1 and c_i = 1 for
\* every term i in 1..T, and d = 1
C6_Constructed ==
  op = "__init__" =>
    (Len(psi) = n_terms /\ d = ONE /\ \A i \in 1..n_terms : psi[i] = <<ONE, ONE, ONE>>)

C6_Witness == op = "__init__" /\ n_terms = 2 /\ psi[2][3] = ONE

ValidParams == d > 0 /\ \A i \in 1..n_terms : psi[i][1] > 0 /\ psi[i][2] > 0

\* C7: with all a_i, b_i and d positive, every entry of fgrad_y is positive
\* and at least d: it is d plus the sum of a_i * b_i * D with D in [0, 1]
C7_Positive ==
  (ValidParams /\ op \in {"fgrad_y", "fgrad_y_precalc"}) =>
    LET g == IF op = "fgrad_y" THEN ret ELSE ret[1]
    IN /\ \A n \in 1..Len(Y) : g[n] > 0 /\ g[n] >= d
       /\ op = "fgrad_y_precalc" =>
            \A n \in 1..Len(Y) :
              /\ \A i \in 1..n_terms : ret[4][i][n] >= 0 /\ ret[4][i][n] <= ONE
              /\ g[n] = d + Sum([i \in 1..n_terms |->
                                  FMul(FMul(psi[i][1], psi[i][2]), ret[4][i][n])])

C7_Witness ==
  /\ op = "fgrad_y_precalc" /\ n_terms = 2 /\ psi[1] # psi[2] /\ d < ONE
  /\ Len(Y) = 2 /\ ret[1][1] > d /\ ret[4][1][2] < ONE

\* the parameters and the call of scenario B
ScenarioB ==
  /\ n_terms = 1 /\ psi = <<<<ONE, ONE, 0>>>> /\ d = ONE /\ initial_y = None
  /\ op = "f_inv" /\ z = <<0>> /\ ~y_given

\* y is 0 to within 0.01
NearZero(v) == Abs(v) * 100 <= ONE

\* C8 as stated: in scenario B the update of the first iteration is within
\* the tolerance
C8_Original == (ScenarioB /\ it = 1) => Converged

\* C8: in scenario B f_inv starts at y = -1; the update of its first iteration
\* is larger than 1 in magnitude, so it converges to y ~ 0 only after more
\* than one iteration
C8_MoreThanOne ==
  ScenarioB =>
    /\ (pc = "loop" /\ it = 0) => y = <<-ONE>>
    /\ it = 1 => AbsSum(update) > ONE
    /\ (pc = "done" /\ Converged) => (it > 1 /\ NearZero(ret[1]))

C8_Witness == ScenarioB /\ pc = "done" /\ Converged /\ it > 1 /\ ~warned

\* C9: without a caller-supplied starting point the first iterate of entry n
\* is +1 if z_n > 0 and -1 otherwise, times the hint if one was configured;
\* under a positive hint it never has the sign opposite to z_n
C9_Start ==
  (pc = "loop" /\ it = 0 /\ ~y_given) =>
    \A n \in 1..Len(z) :
      LET h == IF initial_y = None THEN ONE
               ELSE IF Len(initial_y) = 1 THEN initial_y[1] ELSE initial_y[n]
      IN /\ y[n] = IF z[n] > 0 THEN h ELSE -h
         /\ h > 0 => (~(z[n] > 0 /\ y[n] < 0) /\ ~(z[n] < 0 /\ y[n] > 0))

C9_Witness ==
  /\ pc = "loop" /\ it = 0 /\ ~y_given
  /\ initial_y = <<2 * ONE, -(ONE \div 2)>>
  /\ z = <<0, 2 * ONE>> /\ y = <<-2 * ONE, -(ONE \div 2)>>

\* C10: d is counted once: in both tensors of fgrad_y_psi the d column holds
\* 1 (respectively y) on term index 0 and 0 on every other term; d's buffer
\* is sum_n 1 / jacobian(y_n) - sum_n Kiy_n * y_n; term i's buffer holds term
\* i's slice of jacobian_grad - quadratic_grad
C10_SharedD ==
  op = "update_grads" =>
    LET N == Len(Y)
        inv_jac(n) == FDiv(ONE, fgrad_y1(psi, d, Y[n]))
    IN /\ \A n \in 1..N : \A i \in 1..n_terms :
            /\ grad_y_psi[n][i][4] = (IF i = 1 THEN ONE ELSE 0)
            /\ grad_psi[n][i][4] = (IF i = 1 THEN Y[n] ELSE 0)
       /\ d_gradient =
            Sum([n \in 1..N |-> inv_jac(n)]) - Sum([n \in 1..N |-> FMul(Kiy[n], Y[n])])
       /\ \A i \in 1..n_terms : \A k \in 1..3 :
            psi_gradient[i][k] =
              Sum([n \in 1..N |-> FMul(inv_jac(n), grad_y_psi[n][i][k])])
              - Sum([n \in 1..N |-> FMul(Kiy[n], grad_psi[n][i][k])])

C10_Witness ==
  /\ op = "update_grads" /\ n_terms = 2 /\ Len(Y) = 2 /\ d_gradient # 0
  /\ psi_gradient[1] # psi_gradient[2]

====
